---- MODULE Spec2Model ----
(***************************************************************************)
(* A model of plot_logs.py, the live log plotter of micro-printviz.        *)
(*                                                                         *)
(* Text is modelled as sequences of one-character strings, so that         *)
(* str.strip, int(...) and the label formatting are computed, not assumed. *)
(* A cell of the log is a token: a numeral (its value, >= 0) or a piece of *)
(* text that is no number (GarbageToken).  A parsed cell is a record       *)
(* [txt, v]: txt is TRUE for the cells of an object-dtype column.          *)
(*                                                                         *)
(* Axis limits are floating-point numbers in the program.  Here they are   *)
(* fixed-point integers in units of 1/Scale, with round-to-nearest, the    *)
(* rounding of IEEE arithmetic at a coarser resolution.                    *)
(***************************************************************************)
EXTENDS Integers, Sequences, FiniteSets, TLC

VARIABLES
    pc,         \* position of the program (or of the call under study)
    file,       \* the log file on disk
    n_max,      \* configs["max_samples"] / read_data's n_max
    waited,     \* polls slept through in run's wait-for-file loop
    primed,     \* polls slept through in read_data_until
    x_cols,     \* configs["x_cols"]
    y_cols,     \* configs["y_cols"]
    warn,       \* organize_cols' warn argument of the last call
    data,       \* the table of the last read / resolution
    col_pairs,  \* the (x, y) pairs of the last resolution
    warned,     \* the warnings printed by the last resolution
    handles,    \* the dict of plot handles (label -> artist data)
    xlim,       \* ax.get_xlim(), in units of 1/Scale
    ylim,       \* ax.get_ylim(), in units of 1/Scale
    fig_open,   \* plt.fignum_exists(fig.number)
    exc,        \* the exception that ended the program / call, or "none"
    restarts    \* how often the writer has started the log anew

vars == <<pc, file, n_max, waited, primed, x_cols, y_cols, warn, data,
          col_pairs, warned, handles, xlim, ylim, fig_open, exc, restarts>>

---------------------------------------------------------------------------
(* Bounds of the model.                                                    *)

MaxRows == 3
MaxSamples == 2
WaitTicks == 2
PrimeTicks == 2
MaxRestarts == 1
MaxVal == 1
MaxLim == 1
MaxN == 3
MaxSel == 2

---------------------------------------------------------------------------
(* Text.                                                                   *)

Min(a, b) == IF a < b THEN a ELSE b
Max(a, b) == IF a > b THEN a ELSE b
Abs(a) == IF a < 0 THEN -a ELSE a

Range(s) == {s[i] : i \in DOMAIN s}

IsSpace(c) == c = " "

RECURSIVE LStrip(_)
LStrip(s) ==
    IF s # <<>> /\ IsSpace(Head(s)) THEN LStrip(Tail(s)) ELSE s

RECURSIVE RStrip(_)
RStrip(s) ==
    IF s # <<>> /\ IsSpace(s[Len(s)])
    THEN RStrip(SubSeq(s, 1, Len(s) - 1))
    ELSE s

\* str.strip()
Strip(s) == RStrip(LStrip(s))

Digits == <<"0", "1", "2", "3", "4", "5", "6", "7", "8", "9">>
IsDigit(c) == c \in Range(Digits)
DigitVal(c) == (CHOOSE i \in DOMAIN Digits : Digits[i] = c) - 1

RECURSIVE DigitsValue(_, _)
DigitsValue(s, acc) ==
    IF s = <<>> THEN acc
    ELSE DigitsValue(Tail(s), 10 * acc + DigitVal(Head(s)))

\* int(col) of a str: surrounding whitespace is ignored, one sign is allowed,
\* then at least one digit; anything else raises ValueError.
parse_stripped(s) ==
    LET signed == s # <<>> /\ Head(s) \in {"-", "+"}
        body == IF signed THEN Tail(s) ELSE s
        ok == body # <<>> /\ \A i \in DOMAIN body : IsDigit(body[i])
    IN  [ok |-> ok,
         val |-> IF ~ok THEN 0
                 ELSE IF signed /\ Head(s) = "-" THEN -DigitsValue(body, 0)
                 ELSE DigitsValue(body, 0)]

ParseInt(col) == parse_stripped(Strip(col))

IndexName == <<"_", "i", "n", "d", "e", "x">>
PointSuffix == <<"_", "p", "o", "i", "n", "t">>
Versus == <<" ", "v", "s", ".", " ">>

\* get_label
get_label(x_col, y_col) ==
    IF x_col = IndexName THEN y_col ELSE x_col \o Versus \o y_col

---------------------------------------------------------------------------
(* The log file and read_data.                                             *)

GarbageToken == -1

NoHeader == <<>>
MissingFile == [kind |-> "missing", header |-> NoHeader, rows |-> <<>>]
EmptyFile == [kind |-> "empty", header |-> NoHeader, rows |-> <<>>]
TableFile(h, rs) == [kind |-> "table", header |-> h, rows |-> rs]
\* A file with a line of more fields than the header: pandas' tokenizer fails.
UnparsableFile(h, rs) == [kind |-> "unparsable", header |-> h, rows |-> rs]

None == [isNone |-> TRUE, columns |-> <<>>, rows |-> <<>>, index |-> <<>>]
Frame(cs, rs, ix) == [isNone |-> FALSE, columns |-> cs, rows |-> rs, index |-> ix]

NumCell(v) == [txt |-> FALSE, v |-> v]
TxtCell(v) == [txt |-> TRUE, v |-> v]

\* A column of the file holding a token that is no number is read as an
\* object column: every cell of it stays text.
ColumnIsText(rs, j) == \E i \in DOMAIN rs : rs[i][j] = GarbageToken

ParseRows(rs) ==
    [i \in DOMAIN rs |->
        [j \in DOMAIN rs[i] |->
            IF ColumnIsText(rs, j) THEN TxtCell(rs[i][j]) ELSE NumCell(rs[i][j])]]

\* pd.read_csv(path): the exception it raises ("none" when it returns) and the
\* table, with a RangeIndex.
read_csv(f) ==
    CASE f.kind = "missing" -> [exc |-> "FileNotFoundError", frame |-> None]
      [] f.kind = "empty" -> [exc |-> "EmptyDataError", frame |-> None]
      [] f.kind = "unparsable" -> [exc |-> "ParserError", frame |-> None]
      [] OTHER ->
            [exc |-> "none",
             frame |-> Frame(f.header, ParseRows(f.rows),
                             [i \in DOMAIN f.rows |-> i - 1])]

\* DataFrame.head(n), the opposite end of the frame: the first n rows.
head(s, n) == SubSeq(s, 1, Min(n, Len(s)))

\* DataFrame.tail(n), n >= 0, on a sequence of rows
tail(s, n) == SubSeq(s, Len(s) - Min(n, Len(s)) + 1, Len(s))

\* read_data(path, n_max): [exc, data]; data is None for the sentinel.
read_frame(r, n) ==
    LET d == r.frame
    IN  IF r.exc = "EmptyDataError" THEN [exc |-> "none", data |-> None]
        ELSE IF r.exc # "none" THEN [exc |-> r.exc, data |-> None]
        ELSE IF Len(d.rows) = 0 THEN [exc |-> "none", data |-> None]
        ELSE [exc |-> "none",
              data |-> Frame([i \in DOMAIN d.columns |-> Strip(d.columns[i])],
                             tail(d.rows, n), tail(d.index, n))]

read_data(f, n) == read_frame(read_csv(f), n)

---------------------------------------------------------------------------
(* The column resolver.                                                    *)

NoCols == [some |-> FALSE, cols |-> <<>>]
Cols(cs) == [some |-> TRUE, cols |-> cs]

InColumns(d, col) == \E j \in DOMAIN d.columns : d.columns[j] = col

\* data.columns[int(col)], for p the outcome of int(col)
column_at(d, p) ==
    LET k == Len(d.columns)
    IN  IF ~p.ok THEN [exc |-> "ValueError", col |-> <<>>, found |-> FALSE]
        ELSE IF p.val >= k \/ p.val < -k
             THEN [exc |-> "IndexError", col |-> <<>>, found |-> FALSE]
        ELSE [exc |-> "none",
              col |-> d.columns[IF p.val >= 0 THEN p.val + 1 ELSE k + p.val + 1],
              found |-> TRUE]

\* check_col(data, col, warn): [exc, col, found].  data.columns[int(col)]
\* raises ValueError (int) or IndexError (position out of range), never the
\* KeyError the function catches, so the "return None" branch is not taken.
\* A negative position counts from the end, as Python indexing does.
check_col(d, col) ==
    IF d.isNone THEN [exc |-> "AttributeError", col |-> <<>>, found |-> FALSE]
    ELSE IF InColumns(d, col) THEN [exc |-> "none", col |-> col, found |-> TRUE]
    ELSE column_at(d, ParseInt(col))

\* One step of the comprehension: c is check_col's outcome for the first
\* selector, rest the outcome for the others (not reached when c raised).
keep_col(c, rest) ==
    IF c.exc # "none" THEN [exc |-> c.exc, cols |-> <<>>]
    ELSE IF rest.exc # "none" THEN rest
    ELSE [exc |-> "none",
          cols |-> (IF c.found THEN <<c.col>> ELSE <<>>) \o rest.cols]

\* [check_col(data, col, warn) for col in cols], then the filter on None:
\* the first exception ends the comprehension.
RECURSIVE check_cols(_, _)
check_cols(d, cols) ==
    IF cols = <<>> THEN [exc |-> "none", cols |-> <<>>]
    ELSE keep_col(check_col(d, Head(cols)), check_cols(d, Tail(cols)))

\* cols if len(cols) > 0 else None
none_if_empty(r) ==
    IF r.exc # "none" THEN [exc |-> r.exc, sel |-> NoCols]
    ELSE [exc |-> "none", sel |-> IF Len(r.cols) > 0 THEN Cols(r.cols) ELSE NoCols]

\* The selectors of a list after lines 123-125 / 128-130: [exc, sel]
resolve(d, sel) ==
    IF ~sel.some THEN [exc |-> "none", sel |-> NoCols]
    ELSE none_if_empty(check_cols(d, sel.cols))

\* list(zip(x_cols, y_cols)): without cycle, zip stops at the shorter list.
zip_plain(xs, ys) ==
    [i \in 1..Min(Len(xs), Len(ys)) |-> <<xs[i], ys[i]>>]

\* list(zip(cycle(x_cols), y_cols))
RECURSIVE zip_cycle_from(_, _, _)
zip_cycle_from(xs, ys, k) ==
    IF ys = <<>> THEN <<>>
    ELSE <<<<xs[k], Head(ys)>>>> \o
         zip_cycle_from(xs, Tail(ys), IF k = Len(xs) THEN 1 ELSE k + 1)

zip_cycle(xs, ys) == IF xs = <<>> THEN <<>> ELSE zip_cycle_from(xs, ys, 1)

\* The condition of lines 132-133 under which x_cols is reset to None.
count_mismatch(x, y, w) ==
    x.some /\ y.some /\ (Len(x.cols) # Len(y.cols) /\ Len(x.cols) > 1) /\ w

WarnCounts == "Number of x-cols must match the number of y-cols."
WarnIgnore == "Ignoring x-cols."

\* data.reset_index(names="_index"): the old index becomes the first column.
reset_index(d) ==
    Frame(<<IndexName>> \o d.columns,
          [i \in DOMAIN d.rows |-> <<NumCell(d.index[i])>> \o d.rows[i]],
          [i \in DOMAIN d.rows |-> i - 1])

Raised(e, d) == [exc |-> e, data |-> d, col_pairs |-> <<>>, warned |-> <<>>]

\* Lines 132-147 of organize_cols, for the resolved selector lists rx, ry
pair_cols(d, rx, ry, w) ==
    IF rx.exc # "none" THEN Raised(rx.exc, d)
    ELSE IF ry.exc # "none" THEN Raised(ry.exc, d)
    ELSE
        LET drop == count_mismatch(rx.sel, ry.sel, w)
            msgs == IF drop THEN <<WarnCounts, WarnIgnore>> ELSE <<>>
            x2 == IF drop THEN NoCols ELSE rx.sel
            xs == IF x2.some THEN x2.cols ELSE <<IndexName>>
        IN  IF ~ry.sel.some /\ d.isNone THEN Raised("AttributeError", d)
            ELSE
                LET ys == IF ry.sel.some THEN ry.sel.cols ELSE d.columns
                IN  IF ~(Len(xs) <= Len(ys)) THEN Raised("AssertionError", d)
                    ELSE IF d.isNone THEN Raised("AttributeError", d)
                    ELSE IF InColumns(d, IndexName) THEN Raised("ValueError", d)
                    ELSE [exc |-> "none", data |-> reset_index(d),
                          col_pairs |-> zip_cycle(xs, ys), warned |-> msgs]

\* organize_cols(data, x_cols, y_cols, warn): [exc, data, col_pairs, warned]
organize_cols(d, xsel, ysel, w) == pair_cols(d, resolve(d, xsel), resolve(d, ysel), w)

---------------------------------------------------------------------------
(* The renderer.                                                           *)

NPalette == 6
NStyles == 4
Scale == 100
MarginPct == 5
ThresholdInv == 5
StepNum == 9
StepDen == 10

\* a / b rounded to the nearest integer, ties to even (b > 0)
RoundDiv(a, b) ==
    LET q == a \div b
        r == a % b
    IN  IF 2 * r < b THEN q
        ELSE IF 2 * r > b THEN q + 1
        ELSE IF q % 2 = 0 THEN q ELSE q + 1

EmptyDict == [k \in {} |-> 0]
Put(h, k, v) == [x \in (DOMAIN h) \cup {k} |-> IF x = k THEN v ELSE h[x]]

Artist(xs, ys, c, ls) == [xdata |-> xs, ydata |-> ys, color |-> c, linestyle |-> ls]

ColPos(d, col) == CHOOSE j \in DOMAIN d.columns :
                      /\ d.columns[j] = col
                      /\ \A k \in DOMAIN d.columns : d.columns[k] = col => j <= k

\* data[col]: the column's cells, in row order
Col(d, col) == [i \in DOMAIN d.rows |-> d.rows[i][ColPos(d, col)]]

\* x.dtype == "object"
IsObject(col) == \E i \in DOMAIN col : col[i].txt

\* data[col].values[-1], drawn as a one-point artist
last_value(col) == <<col[Len(col)]>>

\* y[:1], the opposite end of the window: its first row.
first_slice(col) == SubSeq(col, 1, Min(1, Len(col)))

\* y[-1:]
last_slice(col) == SubSeq(col, Len(col), Len(col))

PointKey(label) == label \o PointSuffix

\* The loop of plot_data, lines 160-175: pair i (from 1) takes entry i - 1 of
\* cycle(product(styles, palette)).
RECURSIVE plot_lines(_, _, _, _)
plot_lines(d, pairs, i, h) ==
    IF i > Len(pairs) THEN h
    ELSE
        LET label == get_label(pairs[i][1], pairs[i][2])
            xs == Col(d, pairs[i][1])
            ys == Col(d, pairs[i][2])
            c == (i - 1) % NPalette
            ls == ((i - 1) \div NPalette) % NStyles
            h1 == Put(h, label, Artist(xs, ys, c, ls))
            h2 == Put(h1, PointKey(label),
                      Artist(last_value(xs), last_value(ys), c, 0))
        IN  plot_lines(d, pairs, i + 1, h2)

\* plot_data(ax, data, col_pairs, configs): the handles
plot_data(d, pairs) == plot_lines(d, pairs, 1, EmptyDict)

SeqMin(col) == CHOOSE m \in {col[i].v : i \in DOMAIN col} :
                   \A i \in DOMAIN col : m <= col[i].v
SeqMax(col) == CHOOSE m \in {col[i].v : i \in DOMAIN col} :
                   \A i \in DOMAIN col : m >= col[i].v

\* The bounding box before any series: +inf / -inf, here "finite" is FALSE.
NoBox == [finite |-> FALSE, x_min |-> 0, x_max |-> 0, y_min |-> 0, y_max |-> 0]

Grow(b, xs, ys) ==
    IF ~b.finite
    THEN [finite |-> TRUE, x_min |-> SeqMin(xs), x_max |-> SeqMax(xs),
          y_min |-> SeqMin(ys), y_max |-> SeqMax(ys)]
    ELSE [finite |-> TRUE,
          x_min |-> Min(b.x_min, SeqMin(xs)), x_max |-> Max(b.x_max, SeqMax(xs)),
          y_min |-> Min(b.y_min, SeqMin(ys)), y_max |-> Max(b.y_max, SeqMax(ys))]

\* The loop of plot_update, lines 198-212: [exc, handles, box]
RECURSIVE update_lines(_, _, _, _, _)
update_lines(d, pairs, i, h, b) ==
    IF i > Len(pairs) THEN [exc |-> "none", handles |-> h, box |-> b]
    ELSE
        LET label == get_label(pairs[i][1], pairs[i][2])
            xs == Col(d, pairs[i][1])
            ys == Col(d, pairs[i][2])
        IN  IF IsObject(xs) \/ IsObject(ys)
            THEN update_lines(d, pairs, i + 1, h, b)
            ELSE IF label \notin DOMAIN h
            THEN [exc |-> "KeyError", handles |-> h, box |-> b]
            ELSE
                LET h1 == [h EXCEPT ![label].ydata = ys, ![label].xdata = xs]
                IN  IF PointKey(label) \notin DOMAIN h1
                    THEN [exc |-> "KeyError", handles |-> h1, box |-> b]
                    ELSE update_lines(d, pairs, i + 1,
                            [h1 EXCEPT ![PointKey(label)].ydata = last_slice(ys),
                                       ![PointKey(label)].xdata = last_slice(xs)],
                            Grow(b, xs, ys))

\* Axes.set_xlim / set_ylim: the limits are stored as given, except that
\* identical limits make the transform singular and are expanded by 5 %
\* of their magnitude (by 0.05 around zero), by one unit at least here.
set_lim(lo, hi) ==
    IF lo # hi THEN <<lo, hi>>
    ELSE IF lo = 0 THEN <<-RoundDiv(5 * Scale, 100), RoundDiv(5 * Scale, 100)>>
    ELSE <<lo - Max(1, RoundDiv(5 * Abs(lo), 100)),
           hi + Max(1, RoundDiv(5 * Abs(hi), 100))>>

\* low_rel > 0.2 or low_rel < 0, for low_rel = e / dx with dx >= 0: a numpy
\* division, so e / 0 is +inf, -inf or (e = 0) nan, and nan compares False.
out_of_band(e, dx) ==
    \/ e < 0
    \/ dx = 0 /\ e > 0
    \/ dx > 0 /\ ThresholdInv * e > dx

\* cur + (target - cur) * 0.9
nudge(cur, target) == cur + RoundDiv((target - cur) * StepNum, StepDen)

\* Lines 219-226 (y) and 228-237 (x): the new limits of one axis, for the
\* data bounds lo..hi of that axis (span = hi - lo), the x span dx that both
\* axes divide by, and the current limits; all but lim in data units.
rescale(lim, lo, hi, dx) ==
    LET span == (hi - lo) * Scale
        min_target == lo * Scale - RoundDiv(span * MarginPct, 100)
        max_target == hi * Scale + RoundDiv(span * MarginPct, 100)
        low_e == min_target - lim[1]
        high_e == lim[2] - max_target
    IN  IF out_of_band(low_e, dx * Scale) \/ out_of_band(high_e, dx * Scale)
        THEN set_lim(nudge(lim[1], min_target), nudge(lim[2], max_target))
        ELSE lim

\* Lines 213-238, for the outcome u of the loop: without a finite bounding
\* box (np.isfinite) the limits stay.
rescale_axes(u, xl, yl) ==
    LET b == u.box
    IN  IF u.exc # "none" \/ ~b.finite
        THEN [exc |-> u.exc, handles |-> u.handles, xlim |-> xl, ylim |-> yl]
        ELSE [exc |-> "none", handles |-> u.handles,
              xlim |-> rescale(xl, b.x_min, b.x_max, b.x_max - b.x_min),
              ylim |-> rescale(yl, b.y_min, b.y_max, b.x_max - b.x_min)]

\* plot_update(ax, handles, data, col_pairs, configs): [exc, handles, xlim, ylim]
plot_update(h, d, pairs, xl, yl) ==
    IF d.isNone THEN [exc |-> "none", handles |-> h, xlim |-> xl, ylim |-> yl]
    ELSE rescale_axes(update_lines(d, pairs, 1, h, NoBox), xl, yl)

\* The bounding box of the numeric series of the first frame.
RECURSIVE data_box(_, _, _, _)
data_box(d, pairs, i, b) ==
    IF i > Len(pairs) THEN b
    ELSE IF IsObject(Col(d, pairs[i][1])) \/ IsObject(Col(d, pairs[i][2]))
    THEN data_box(d, pairs, i + 1, b)
    ELSE data_box(d, pairs, i + 1, Grow(b, Col(d, pairs[i][1]), Col(d, pairs[i][2])))

\* The view limits of one axis for the data bounds lo..hi: matplotlib's
\* default margin is 5 % of the span on each side.
view_lim(lo, hi) ==
    set_lim(lo * Scale - RoundDiv((hi - lo) * Scale * 5, 100),
            hi * Scale + RoundDiv((hi - lo) * Scale * 5, 100))

box_limits(b) ==
    IF ~b.finite THEN [xlim |-> <<0, Scale>>, ylim |-> <<0, Scale>>]
    ELSE [xlim |-> view_lim(b.x_min, b.x_max), ylim |-> view_lim(b.y_min, b.y_max)]

\* The limits matplotlib's autoscaling gives the first frame: the bounds of
\* the numeric series with the default margins ((0, 1) without any).
autoscale(d, pairs) == box_limits(data_box(d, pairs, 1, NoBox))

---------------------------------------------------------------------------
(* Inputs: column names, headers as written (with the blank that follows   *)
(* the comma in "a, b"), selectors, rows.                                  *)

NameA == <<"a">>
NameB == <<"b">>
NameC == <<"c">>
NameZ == <<"z">>
Sel1 == <<"1">>
Sel5 == <<"5">>
SelLast == <<"-", "1">>

Header2 == <<NameA, <<" ">> \o NameB>>
Header3 == <<NameA, <<" ">> \o NameB, <<" ">> \o NameC \o <<" ">>>>
Headers == {Header2, Header3}

\* A complete numeric line, and a line whose field j is no number.
NumRow(v, k) == [j \in 1..k |-> v + j - 1]
GarbageRow(j, k) == [i \in 1..k |-> IF i = j THEN GarbageToken ELSE 0]
\* The lines the writer may append to a log of n lines: the next sample of
\* a ramp, or a line whose second field is no number.
NextRows(n, k) == {NumRow(n, k), GarbageRow(2, k)}

XChoices == {NoCols, Cols(<<NameA, NameC>>)}
YChoices == {NoCols, Cols(<<NameB>>), Cols(<<NameB, NameZ>>)}

DefaultLim == <<0, Scale>>

---------------------------------------------------------------------------
(* run: the control loop, with the writer of the log and the user who      *)
(* closes the window as its environment.                                   *)

Init ==
    /\ pc = "Waiting"
    /\ file \in {MissingFile, EmptyFile}
    /\ n_max = MaxSamples
    /\ waited = 0
    /\ primed = 0
    /\ x_cols \in XChoices
    /\ y_cols \in YChoices
    /\ warn = TRUE
    /\ data = None
    /\ col_pairs = <<>>
    /\ warned = <<>>
    /\ handles = EmptyDict
    /\ xlim = DefaultLim
    /\ ylim = DefaultLim
    /\ fig_open = FALSE
    /\ exc = "none"
    /\ restarts = 0

Config == <<n_max, x_cols, y_cols>>
Plot == <<handles, xlim, ylim>>
Resolution == <<warn, data, col_pairs, warned>>

\* The program ends with an uncaught exception e.
Crash(e) == pc' = "Crashed" /\ exc' = e

\* Lines 250-259: one poll of the wait for the log file.
WaitPoll ==
    /\ pc = "Waiting"
    /\ IF file.kind # "missing"
       THEN /\ pc' = "Priming"
            /\ fig_open' = TRUE
            /\ UNCHANGED waited
       ELSE /\ waited' = waited + 1
            /\ pc' = IF waited' > WaitTicks THEN "TimedOut" ELSE "Waiting"
            /\ UNCHANGED fig_open
    /\ UNCHANGED <<file, Config, primed, Resolution, Plot, exc, restarts>>

\* Lines 264-267: the first frame, for the outcome o of organize_cols.
FirstFrame(o) ==
    /\ warn' = TRUE
    /\ data' = o.data
    /\ warned' = o.warned
    /\ IF o.exc # "none"
       THEN Crash(o.exc) /\ UNCHANGED <<col_pairs, Plot>>
       ELSE /\ col_pairs' = o.col_pairs
            /\ handles' = plot_data(o.data, o.col_pairs)
            /\ xlim' = autoscale(o.data, o.col_pairs).xlim
            /\ ylim' = autoscale(o.data, o.col_pairs).ylim
            /\ pc' = "Streaming"
            /\ UNCHANGED exc

\* One round of read_data_until (lines 98-105), for the outcome r of its
\* read_data: it returns the data, or None after the timeout.
PrimeRound(r) ==
    IF r.exc # "none"
    THEN Crash(r.exc) /\ UNCHANGED <<primed, Resolution, Plot>>
    ELSE IF r.data.isNone /\ primed + 1 <= PrimeTicks
    THEN /\ primed' = primed + 1
         /\ UNCHANGED <<pc, exc, Resolution, Plot>>
    ELSE /\ primed' = IF r.data.isNone THEN primed + 1 ELSE primed
         /\ FirstFrame(organize_cols(r.data, x_cols, y_cols, TRUE))

\* Lines 260-267: one round of read_data_until; with data (or on its timeout,
\* with None) the first resolution and the first frame.
PrimeRead ==
    /\ pc = "Priming"
    /\ PrimeRound(read_data(file, n_max))
    /\ UNCHANGED <<file, Config, waited, fig_open, restarts>>

\* Lines 278-281, for the outcome u of plot_update: the pause, then the check
\* that the figure still exists.
Paused(u) ==
    /\ handles' = u.handles
    /\ xlim' = u.xlim
    /\ ylim' = u.ylim
    /\ IF u.exc # "none"
       THEN Crash(u.exc)
       ELSE /\ pc' = IF fig_open THEN "Streaming" ELSE "Closed"
            /\ UNCHANGED exc

\* Lines 272-277, for the outcome o of organize_cols.
Resolved(o) ==
    /\ warn' = FALSE
    /\ data' = o.data
    /\ warned' = o.warned
    /\ IF o.exc # "none"
       THEN Crash(o.exc) /\ UNCHANGED <<col_pairs, Plot>>
       ELSE /\ col_pairs' = o.col_pairs
            /\ Paused(plot_update(handles, o.data, o.col_pairs, xlim, ylim))

\* Lines 270-277, for the outcome r of read_data.
StreamRound(r) ==
    IF r.exc # "none"
    THEN Crash(r.exc) /\ UNCHANGED <<Resolution, Plot>>
    ELSE Resolved(organize_cols(r.data, x_cols, y_cols, FALSE))

\* Lines 269-281: one cycle of the streaming loop.
StreamCycle ==
    /\ pc = "Streaming"
    /\ StreamRound(read_data(file, n_max))
    /\ UNCHANGED <<file, Config, waited, primed, fig_open, restarts>>

\* The program has not ended: the log is of interest only while it is read.
Running == pc \in {"Waiting", "Priming", "Streaming"}

Program == <<pc, Config, waited, primed, Resolution, Plot, fig_open, exc>>

\* The writer (mpremote ... | tee log.txt) creates the log file.
CreateLog ==
    /\ Running
    /\ file.kind = "missing"
    /\ file' = EmptyFile
    /\ UNCHANGED <<Program, restarts>>

\* The writer's first line arrives: the header.
WriteHeader ==
    /\ Running
    /\ file.kind = "empty"
    /\ \E h \in Headers : file' = TableFile(h, <<>>)
    /\ UNCHANGED <<Program, restarts>>

\* The writer appends a line.
AppendRow ==
    /\ Running
    /\ file.kind = "table"
    /\ Len(file.rows) < MaxRows
    /\ \E row \in NextRows(Len(file.rows), Len(file.header)) :
           file' = TableFile(file.header, Append(file.rows, row))
    /\ UNCHANGED <<Program, restarts>>

\* The writer is started again: tee truncates the log.
RestartLog ==
    /\ Running
    /\ file.kind = "table"
    /\ restarts < MaxRestarts
    /\ file' = EmptyFile
    /\ restarts' = restarts + 1
    /\ UNCHANGED Program

\* The user closes the plot window.
CloseWindow ==
    /\ pc \in {"Priming", "Streaming"}
    /\ fig_open
    /\ fig_open' = FALSE
    /\ UNCHANGED <<pc, file, Config, waited, primed, Resolution, Plot, exc, restarts>>

Next ==
    \/ WaitPoll
    \/ PrimeRead
    \/ StreamCycle
    \/ CreateLog
    \/ WriteHeader
    \/ AppendRow
    \/ RestartLog
    \/ CloseWindow

Spec == Init /\ [][Next]_vars

---------------------------------------------------------------------------
(* read_data on its own: every file state, every n_max.                    *)

HeaderPadded == <<<<" ", "a", " ", "b", " ", " ">>>>
ReadHeaders == Headers \cup {HeaderPadded}

AllRows(k) == {NumRow(v, k) : v \in 0..MaxVal} \cup {GarbageRow(j, k) : j \in 1..k}

\* The sequences of at most n elements of S
SeqsUpTo(S, n) == UNION {[1..m -> S] : m \in 0..n}

ReadFiles ==
    {MissingFile, EmptyFile}
    \cup {TableFile(h, rs) : h \in {Header2}, rs \in SeqsUpTo(AllRows(2), MaxRows)}
    \cup {TableFile(h, rs) : h \in {Header3}, rs \in SeqsUpTo(AllRows(3), MaxRows)}
    \cup {TableFile(h, rs) : h \in {HeaderPadded}, rs \in SeqsUpTo(AllRows(1), MaxRows)}
    \cup {UnparsableFile(h, <<>>) : h \in ReadHeaders}

IdlePlot ==
    /\ waited = 0
    /\ primed = 0
    /\ col_pairs = <<>>
    /\ warned = <<>>
    /\ handles = EmptyDict
    /\ xlim = DefaultLim
    /\ ylim = DefaultLim
    /\ fig_open = FALSE
    /\ exc = "none"
    /\ restarts = 0

InitRead ==
    /\ pc = "ReadCall"
    /\ file \in ReadFiles
    /\ n_max \in 1..MaxN
    /\ x_cols = NoCols
    /\ y_cols = NoCols
    /\ data = None
    /\ warn = TRUE
    /\ IdlePlot

\* read_data returns r.data or raises r.exc.
ReadReturn(r) ==
    /\ pc' = "ReadDone"
    /\ data' = r.data
    /\ exc' = r.exc

ReadCall ==
    /\ pc = "ReadCall"
    /\ ReadReturn(read_data(file, n_max))
    /\ UNCHANGED <<file, Config, waited, primed, warn, col_pairs, warned, Plot,
                   fig_open, restarts>>

NextRead == ReadCall

SpecRead == InitRead /\ [][NextRead]_vars

---------------------------------------------------------------------------
(* organize_cols on its own: every table, selector lists, warn.            *)

XSelectors == {NameA, NameC, NameZ, Sel1}
YSelectors == {NameA, NameB, NameC, NameZ, Sel5, SelLast}

SelLists(S) == {NoCols} \cup {Cols(cs) : cs \in SeqsUpTo(S, MaxSel) \ {<<>>}}

ResolveFiles == {EmptyFile} \cup {TableFile(h, <<NumRow(0, Len(h))>>) : h \in Headers}

\* The table organize_cols is called with: what read_data made of the file.
Input == read_data(file, n_max).data

InitResolve ==
    /\ pc = "ResolveCall"
    /\ file \in ResolveFiles
    /\ n_max = MaxSamples
    /\ x_cols \in SelLists(XSelectors)
    /\ y_cols \in SelLists(YSelectors)
    /\ data = Input
    /\ warn \in BOOLEAN
    /\ IdlePlot

ResolveReturn(o) ==
    /\ pc' = "ResolveDone"
    /\ data' = o.data
    /\ col_pairs' = o.col_pairs
    /\ warned' = o.warned
    /\ exc' = o.exc

ResolveCall ==
    /\ pc = "ResolveCall"
    /\ ResolveReturn(organize_cols(data, x_cols, y_cols, warn))
    /\ UNCHANGED <<file, Config, waited, primed, warn, Plot, fig_open, restarts>>

NextResolve == ResolveCall

SpecResolve == InitResolve /\ [][NextResolve]_vars

---------------------------------------------------------------------------
(* Claims about read_data (under SpecRead).                                *)

Spaces(s) == \A i \in DOMAIN s : IsSpace(s[i])

\* name is raw without its surrounding whitespace
Trimmed(raw, name) ==
    /\ name = <<>> \/ (~IsSpace(name[1]) /\ ~IsSpace(name[Len(name)]))
    /\ \E a \in 0..Len(raw) :
           /\ a + Len(name) <= Len(raw)
           /\ Spaces(SubSeq(raw, 1, a))
           /\ SubSeq(raw, a + 1, a + Len(name)) = name
           /\ Spaces(SubSeq(raw, a + Len(name) + 1, Len(raw)))

ReadOfTable == pc = "ReadDone" /\ file.kind = "table" /\ Len(file.rows) >= 1

\* C9: for a log with a header of k columns and at least one data row, and
\* n_max >= 1, read_data returns a table of exactly k columns named by the
\* header names without their surrounding whitespace, holding
\* min(n_max, number of data rows) rows: the last rows of the file, in file
\* order, under their row numbers in the file.
C9_LastRowsTrimmedNames ==
    ReadOfTable =>
        /\ exc = "none"
        /\ ~data.isNone
        /\ Len(data.columns) = Len(file.header)
        /\ \A j \in DOMAIN file.header : Trimmed(file.header[j], data.columns[j])
        /\ Len(data.rows) = Min(n_max, Len(file.rows))
        /\ Len(data.index) = Len(data.rows)
        /\ \A i \in DOMAIN data.rows :
               LET src == Len(file.rows) - Len(data.rows) + i
               IN  /\ data.index[i] = src - 1
                   /\ Len(data.rows[i]) = Len(file.header)
                   /\ \A j \in DOMAIN file.header :
                          data.rows[i][j].v = file.rows[src][j]

\* A read that had to cut the file to its last n_max rows, which differ from
\* its first ones, and to trim a header name.
C9_Witness ==
    /\ ReadOfTable
    /\ Len(file.rows) > n_max
    /\ file.rows[1] # file.rows[Len(file.rows)]
    /\ \E j \in DOMAIN file.header : data.columns[j] # file.header[j]
    /\ Len(data.rows) = n_max

\* C3: for a missing file, an empty file, a file of a header line only and
\* an unparsable file, read_data returns the no-data sentinel and does not
\* raise.
C3_Original ==
    (/\ pc = "ReadDone"
     /\ \/ file.kind \in {"missing", "empty", "unparsable"}
        \/ file.kind = "table" /\ Len(file.rows) = 0)
    => (exc = "none" /\ data.isNone)

---------------------------------------------------------------------------
(* Claims about organize_cols (under SpecResolve).                         *)

\* A selector that is neither a column name nor a valid position.
Unresolvable(d, col) ==
    /\ ~InColumns(d, col)
    /\ \/ ~ParseInt(col).ok
       \/ ParseInt(col).val >= Len(d.columns)
       \/ ParseInt(col).val < -Len(d.columns)

\* The column a resolvable selector stands for.
ColumnOf(d, col) ==
    IF InColumns(d, col) THEN col
    ELSE d.columns[IF ParseInt(col).val >= 0 THEN ParseInt(col).val + 1
                   ELSE Len(d.columns) + ParseInt(col).val + 1]

\* The selectors of a list that can be resolved, resolved, in their order.
RECURSIVE Kept(_, _)
Kept(d, cols) ==
    IF cols = <<>> THEN <<>>
    ELSE (IF Unresolvable(d, Head(cols)) THEN <<>> ELSE <<ColumnOf(d, Head(cols))>>)
         \o Kept(d, Tail(cols))

Resolvable(d, sel) == \A i \in DOMAIN sel.cols : ~Unresolvable(d, sel.cols[i])

ResolveOfTable == pc = "ResolveDone" /\ ~Input.isNone

\* C4: a selector that is neither a column name nor a valid position is
\* dropped, with a warning when warnings are enabled, the resolution does
\* not raise, and the other selectors are kept in their order.
C4_Original ==
    (/\ ResolveOfTable
     /\ y_cols.some
     /\ ~Resolvable(Input, y_cols)
     /\ Resolvable(Input, x_cols)
     /\ Len(Kept(Input, y_cols.cols)) >= Len(x_cols.cols))
    => /\ exc = "none"
       /\ warn => warned # <<>>
       /\ [i \in DOMAIN col_pairs |-> col_pairs[i][2]] = Kept(Input, y_cols.cols)

\* C5: with explicit x and y selectors, more than one resolved x selector and
\* a different number of resolved y selectors, organize_cols discards the x
\* selectors, so every pair has the row index as x, with warnings enabled
\* and disabled alike, and does not raise.
C5_Original ==
    (/\ ResolveOfTable
     /\ x_cols.some /\ y_cols.some
     /\ Resolvable(Input, x_cols) /\ Resolvable(Input, y_cols)
     /\ Len(x_cols.cols) > 1
     /\ Len(x_cols.cols) # Len(y_cols.cols))
    => /\ exc = "none"
       /\ col_pairs = [i \in DOMAIN y_cols.cols |->
                           <<IndexName, ColumnOf(Input, y_cols.cols[i])>>]

\* The x list and the y list organize_cols pairs: the resolved selectors, the
\* row index for x when the x selectors are absent or were discarded for
\* their count, every column of the table when the y selectors are absent.
PairedX ==
    IF ~x_cols.some \/ (y_cols.some /\ warn /\ Len(x_cols.cols) > 1
                        /\ Len(x_cols.cols) # Len(y_cols.cols))
    THEN <<IndexName>>
    ELSE Kept(Input, x_cols.cols)
PairedY == IF y_cols.some THEN Kept(Input, y_cols.cols) ELSE Input.columns

\* C6: organize_cols returns one pair per y column, in the order of the y
\* columns, and pair i is (x[i mod len(x)], y[i]) (counting from 0) for the x
\* list and the y list it pairs.
C6_PairsCycleX ==
    (pc = "ResolveDone" /\ exc = "none") =>
        /\ Len(col_pairs) = Len(PairedY)
        /\ \A i \in DOMAIN col_pairs :
               col_pairs[i] = <<PairedX[((i - 1) % Len(PairedX)) + 1], PairedY[i]>>

\* Two x columns cycled over three y columns.
C6_Witness ==
    /\ pc = "ResolveDone" /\ exc = "none"
    /\ Len(col_pairs) = 3
    /\ col_pairs[1][1] # IndexName
    /\ col_pairs[2][1] # col_pairs[1][1]
    /\ col_pairs[3][1] = col_pairs[1][1]

---------------------------------------------------------------------------
(* Claims about the control loop (under Spec).                             *)

Sentinel == read_data(file, n_max).exc = "none" /\ read_data(file, n_max).data.isNone

\* C1: a Streaming cycle whose read_data gives the no-data sentinel raises
\* no error and leaves the handles and the axis limits as they are; the loop
\* goes on to the pause and the window check.
C1_Original ==
    [][(pc = "Streaming" /\ Sentinel /\ UNCHANGED <<file, fig_open>>)
        => /\ pc' \in {"Streaming", "Closed"}
           /\ exc' = "none"
           /\ UNCHANGED Plot]_vars

\* C2: the loop moves forward only, Waiting -> Priming -> Streaming; it
\* leaves Streaming only by the check that finds the window closed; and from
\* Waiting it exits, without Priming, once the log file has not appeared
\* within the timeout.
C2_Original ==
    [][/\ pc = "Streaming" => pc' \in {"Streaming", "Closed"}
       /\ (pc = "Streaming" /\ pc' = "Closed") => ~fig_open
       /\ pc = "Priming" => pc' # "Waiting"
       /\ (pc = "Waiting" /\ file.kind = "missing" /\ waited >= WaitTicks)
              => pc' \in {"Waiting", "TimedOut"}
       /\ (pc = "Waiting" /\ pc' = "TimedOut") => file.kind = "missing"]_vars

\* The last row of the window of the last cycle, as the (x, y) of a pair.
LastOf(col) == <<col[Len(col)]>>
MarkerAtLastRow(p) ==
    /\ PointKey(get_label(p[1], p[2])) \in DOMAIN handles
    /\ handles[PointKey(get_label(p[1], p[2]))].xdata = LastOf(Col(data, p[1]))
    /\ handles[PointKey(get_label(p[1], p[2]))].ydata = LastOf(Col(data, p[2]))

NumericPair(p) == ~IsObject(Col(data, p[1])) /\ ~IsObject(Col(data, p[2]))

\* A cycle of the Streaming loop, or the first frame, has completed.
FrameDrawn == pc \in {"Streaming", "Closed"}

\* C7, as claimed: after every completed cycle, and after the first frame,
\* the last-point marker of every series is at the (x, y) of the final row
\* of the window of that cycle's read.
C7_Original ==
    FrameDrawn => \A i \in DOMAIN col_pairs : MarkerAtLastRow(col_pairs[i])

\* C7, amended: after the first frame the marker of every series, and after
\* every completed Streaming cycle the marker of every series the cycle
\* resolved whose x and y columns are both numeric, is at the (x, y) of the
\* final row of the window of that cycle's read.
C7_NumericMarkers ==
    FrameDrawn =>
        \A i \in DOMAIN col_pairs :
            (warn \/ NumericPair(col_pairs[i])) => MarkerAtLastRow(col_pairs[i])

\* A Streaming cycle over a window that is the tail of a longer log and
\* differs from the one before has moved a marker.
C7_Witness ==
    /\ pc = "Streaming"
    /\ ~warn
    /\ Col(data, IndexName)[1].v > 0
    /\ Len(data.rows) = n_max
    /\ \E i \in DOMAIN col_pairs :
           /\ NumericPair(col_pairs[i])
           /\ MarkerAtLastRow(col_pairs[i])
           /\ Col(data, col_pairs[i][2])[1] # Col(data, col_pairs[i][2])[Len(data.rows)]

\* C10: every pair a Streaming cycle resolves has a line handle and a
\* last-point handle made in Priming, and the distinct pairs of Priming own
\* distinct handles.
C10_Original ==
    /\ (pc \in {"Streaming", "Closed", "Crashed"} /\ ~warn /\ exc \notin {"AssertionError", "AttributeError", "ValueError", "IndexError"})
           => \A i \in DOMAIN col_pairs :
                  /\ get_label(col_pairs[i][1], col_pairs[i][2]) \in DOMAIN handles
                  /\ PointKey(get_label(col_pairs[i][1], col_pairs[i][2])) \in DOMAIN handles
    /\ (pc = "Streaming" /\ warn)
           => Cardinality(DOMAIN handles) = 2 * Cardinality(Range(col_pairs))

---------------------------------------------------------------------------
(* The Streaming loop over a log that no longer changes, from any visible  *)
(* limits (the user may pan and zoom the window).                          *)

LimGrid == {k * Scale : k \in -MaxLim..MaxLim}
InitLims == {l \in LimGrid \X LimGrid : l[1] < l[2]}

AxisFiles ==
    {TableFile(Header2, rs) :
        rs \in SeqsUpTo({NumRow(v, 2) : v \in 0..MaxVal}, MaxSamples) \ {<<>>}}

InitAxis ==
    /\ pc = "Streaming"
    /\ file \in AxisFiles
    /\ n_max = MaxSamples
    /\ x_cols \in {NoCols, Cols(<<NameA>>)}
    /\ y_cols = Cols(<<NameB>>)
    /\ warn = TRUE
    /\ data = organize_cols(Input, x_cols, y_cols, TRUE).data
    /\ col_pairs = organize_cols(Input, x_cols, y_cols, TRUE).col_pairs
    /\ warned = <<>>
    /\ handles = plot_data(data, col_pairs)
    /\ xlim \in InitLims
    /\ ylim \in InitLims
    /\ fig_open = TRUE
    /\ exc = "none"
    /\ waited = 0
    /\ primed = 0
    /\ restarts = 0

\* Lines 277-281 over a log that did not change since the last cycle:
\* read_data and organize_cols (lines 270-276) return the frame and the pairs
\* of the last cycle, and plot_update runs on them.
AxisCycle ==
    /\ pc = "Streaming"
    /\ Paused(plot_update(handles, data, col_pairs, xlim, ylim))
    /\ warn' = FALSE
    /\ UNCHANGED <<file, n_max, x_cols, y_cols, data, col_pairs, warned>>
    /\ UNCHANGED <<waited, primed, fig_open, restarts>>

NextAxis == AxisCycle

\* The loop is "while True": as long as the window is open a cycle follows.
SpecAxis == InitAxis /\ [][NextAxis]_vars /\ WF_vars(AxisCycle)

\* The bounding box of the window of the last cycle.
Box == data_box(data, col_pairs, 1, NoBox)

\* The test of lines 224 and 234 finds both ends of both axes in the band.
InBand ==
    /\ rescale(xlim, Box.x_min, Box.x_max, Box.x_max - Box.x_min) = xlim
    /\ rescale(ylim, Box.y_min, Box.y_max, Box.x_max - Box.x_min) = ylim

\* Another cycle over the same log leaves the limits where they are.
LimitsRest ==
    /\ plot_update(handles, data, col_pairs, xlim, ylim).xlim = xlim
    /\ plot_update(handles, data, col_pairs, xlim, ylim).ylim = ylim

\* C8: with the bounding box of the data constant, from any visible limits,
\* the cycles reach after finitely many steps a state with both ends of both
\* axes within the threshold, and from then on no cycle changes the limits.
C8_Original == <>[](pc = "Streaming" => (InBand /\ LimitsRest))

====
